---- MODULE Spec2Model ----
(***************************************************************************)
(* Model of src/mediawiki.cc (GoldenDict MediaWiki dictionary backend):    *)
(*   - MediaWikiDictionary::getArticle / prefixMatch (80-unit guard),      *)
(*   - MediaWikiArticleRequest: the queue of network replies, the queued   *)
(*     finished( reply ) events of the shared network manager, the         *)
(*     in-order drain in requestFinished, the page id filter, cancel(),    *)
(*   - MediaWikiWordSearchRequest: cancel() and downloadFinished().        *)
(* One request lives in a behaviour.  A term is represented by its size,   *)
(* a reply handle by the index of the query that created it, an article    *)
(* fragment by the query and the page it came from.                        *)
(***************************************************************************)
EXTENDS Integers, Sequences, FiniteSets, TLC

\* ---------------------------------------------------------------- bounds
\* largest number of alternate terms passed to getArticle
MaxAlts == 2
\* largest term size tried (the guard is at MaxWordSize)
MaxLen == 81
\* largest page id a response carries
MaxPageId == 2
\* most foreign finished() events waiting in the event queue at once
MaxForeign == 1

\* most s children of a sections element
MaxSections == 5
\* largest toclevel attribute of an s element
MaxLevel == 3

\* most chunks of markup in the text of a page
MaxChunks == 4

\* ---------------------------------------------------- program constants
\* word.size() > 80
MaxWordSize == 80
\* a reply of another request on the shared QNetworkAccessManager
ForeignReply == 0

\* ------------------------------------------------------------ the state
VARIABLES
  reqKind,          \* what getArticle/prefixMatch returned: "none", "article",
                    \* "dataInstant", "search", "searchInstant"
  askedWord,        \* word.size() of the lookup made (0 before the lookup)
  issued,           \* term sizes of the network operations issued (mgr.get)
  netReplies,       \* MediaWikiArticleRequest::netReplies (reply, finished flag)
  replyState,       \* per reply: Running, Unread (finished, content not yet
                    \* read by the request) or the response read from it
  events,           \* queued finished( reply ) slots, in posting order
  addedPageIds,     \* SmallSet<long long>::elements
  data,             \* DataRequest::data, one entry per appended article body
  hasAnyData,       \* DataRequest::hasAnyData
  errorString,      \* Request::errorString (NoError when never set)
  isFinishedFlag,   \* Request::isFinishedFlag
  finishedSignals,  \* number of emitted finished() signals of the request
  updateSignals,    \* number of emitted updated() signals of the request
  cancelled,        \* cancel() has been called on the request
  netReply,         \* MediaWikiWordSearchRequest::netReply: "null" or "held"
  isCancelling,     \* MediaWikiWordSearchRequest::isCancelling
  matches,          \* WordSearchRequest::matches
  searchEvt,        \* the finished() signal of the search reply: "none",
                    \* "pending" (not yet emitted) or "emitted"
  toLanguageRTL,    \* dictPtr->isToLanguageRTL()
  audioLinks,       \* the calls of addAudioLink made so far, in order
  ignoredReply,     \* requestFinished has returned at "not our reply"
  replyDeref        \* what downloadFinished has dereferenced netReply as:
                    \* "none" (not dereferenced), "held" or "null"

vars == << reqKind, askedWord, issued, netReplies, replyState, events, addedPageIds, data,
           hasAnyData, errorString, isFinishedFlag, finishedSignals,
           updateSignals, cancelled, netReply, isCancelling, matches,
           searchEvt, toLanguageRTL, audioLinks, ignoredReply,
           replyDeref >>

articleVars == << netReplies, replyState, events, addedPageIds, data,
                  hasAnyData, updateSignals >>

searchVars == << netReply, isCancelling, matches, searchEvt, replyDeref >>

\* what only requestFinished reads or writes besides the request's fields
pageVars == << toLanguageRTL, audioLinks, ignoredReply >>

\* ------------------------------------------------------------ the inputs
\* term sizes at and above the guard
AllTermSizes == MaxWordSize .. MaxLen

\* term sizes that pass the guard
ShortTermSizes == {1}

AltSeqs(T) == UNION { [1 .. n -> T] : n \in 0 .. MaxAlts }

PageIds == 1 .. MaxPageId

\* the revid attribute of the parse node: "0", absent (attribute() gives ""),
\* or a real revision
RevIds == { "0", "", "7" }

\* what a finished article reply holds
ErrorReplies == { [kind |-> "neterr"], [kind |-> "xmlerr"] }

NoParseReplies == { [kind |-> "noparse"] }

\* emptyTocIndicator
EmptyTocIndicator == "<meta property=\"mw:PageProp/toc\" />"

\* the decimal numerals of one digit
Numerals == << "1", "2", "3", "4", "5", "6", "7", "8", "9" >>

\* textNode.toElement().text() of a page without markup
PlainBody == << "x" >>

\* a parse node without a sections child
NoSections == [present |-> FALSE, levels |-> << >>]

\* parse nodes: a real revision with every page id, with and without a text
\* child; revid "0" and no revid attribute with a page id and a text child
ParseReplies ==
  [kind : {"parse"}, revid : {"7"}, pageid : PageIds, text : BOOLEAN,
   body : {PlainBody}, sections : {NoSections}]
    \cup [kind : {"parse"}, revid : RevIds, pageid : {1}, text : {TRUE},
          body : {PlainBody}, sections : {NoSections}]

Responses == ErrorReplies \cup NoParseReplies \cup ParseReplies

\* a transport error, a page not found and a page with a text child
SmallResponses ==
  { [kind |-> "neterr"], [kind |-> "noparse"],
    [kind |-> "parse", revid |-> "7", pageid |-> 1, text |-> TRUE,
     body |-> PlainBody, sections |-> NoSections] }

\* the toclevel attributes tried: the levels, "0", "-1" and a word
LevelStrings == { "0", "-1", "x" } \cup { Numerals[n] : n \in 1 .. MaxLevel }

\* the toclevel attributes of the s children of a sections element
LevelSeqs == UNION { [1 .. n -> LevelStrings] : n \in 0 .. MaxSections }

\* the text of a page with the indicator of the empty table of contents
TocBody == << "x", EmptyTocIndicator, "y" >>

\* pages with and without the indicator, with and without a sections element
TocResponses ==
  [kind : {"parse"}, revid : {"7"}, pageid : {1}, text : {TRUE},
   body : {TocBody, PlainBody},
   sections : {NoSections} \cup [present : {TRUE}, levels : LevelSeqs]]

\* the chunks of markup that the texts of a page are made of: links to
\* articles with anchors, colons and underscores,
LinkChunks ==
  { << "<a", " ", "href=", "\"", "/", "w" >>, << "#" >>, << ":" >>,
    << ":", "/", "/" >>, << "_", "y" >>, << "\"" >> }

\* links to /wiki/ and to index.php,
PathChunks ==
  { << "<a", " ", "href=", "\"" >>, << "/", "wiki", "/" >>, << "/" >>, << "w", "/" >>,
    << "index.php?" >>, << "x", "\"" >> }

\* src, srcset and url( references,
SrcChunks ==
  { << " ", "src=", "\"" >>, << "url(", "\"" >>,
    << " ", "srcset", "=", "\"", "/", "x" >>, << "/" >>, << "y", "\"" >> }

\* audio tags and links to audio files,
AudioChunks ==
  { << "<audio", " ", "<source", " ", "src=", "\"" >>, << "<audio", " " >>,
    << "/", "/", "upload.wikimedia.org", "/", "wikipedia", "/", "x", ".ogg" >>,
    << "<a", " ", "href=", "\"" >>, << "\"" >>, << "</audio>" >> }

\* and links to files
FileChunks ==
  { << "<a", " ", "href=", "\"" >>, << "File", "%3A" >>, << "x", ".png" >>,
    << "_" >>, << "/" >>, << "\"" >> }

\* the chunks of c put one after the other
RECURSIVE Concat(_)
Concat(c) == IF c = << >> THEN << >> ELSE Head(c) \o Concat(Tail(c))

\* the texts made of at most MaxChunks chunks of one kind
Texts(chunks) == { Concat(c) : c \in UNION { [1 .. n -> chunks] : n \in 0 .. MaxChunks } }

TextBodies ==
  Texts(LinkChunks) \cup Texts(PathChunks) \cup Texts(SrcChunks)
    \cup Texts(AudioChunks) \cup Texts(FileChunks)

\* pages with every text, without a sections element
TextResponses ==
  [kind : {"parse"}, revid : {"7"}, pageid : {1}, text : {TRUE},
   body : TextBodies, sections : {NoSections}]

\* what a finished prefix search reply holds
SearchResponses == { [kind |-> "neterr"], [kind |-> "xmlerr"],
                     [kind |-> "nopages"],
                     [kind |-> "pages", titles |-> << >>],
                     [kind |-> "pages", titles |-> << "a", "b" >>] }

Range(s) == { s[i] : i \in 1 .. Len(s) }

\* ------------------------------------------------ Request (dictionary.hh)
isFinished == isFinishedFlag

\* Request::finish(): sets the flag and emits finished(), once
finish ==
  /\ isFinishedFlag' = TRUE
  /\ finishedSignals' = IF isFinishedFlag THEN finishedSignals ELSE finishedSignals + 1

\* the empty error string
NoError == << >>

\* netReply->errorString() of the failed reply h
NetErrorString(h) == << "net", h >>

\* tr( "XML parse error: %1 at %2,%3" ) for the reply h
XmlErrorString(h) == << "xml", h >>

\* a reply the network has not finished yet
Running == [kind |-> "running"]

\* a finished reply whose error() and content the request has not read yet
Unread == [kind |-> "unread"]

\* ------------------------------------------------------------- SmallSet
SmallSetInsert(elements, x) ==
  IF x \in Range(elements)
  THEN [inserted |-> FALSE, elements |-> elements]
  ELSE [inserted |-> TRUE, elements |-> Append(elements, x)]

\* ------------------------------------------------------------------ Init
Init ==
  /\ reqKind = "none"
  /\ askedWord = 0
  /\ issued = << >>
  /\ netReplies = << >>
  /\ replyState = << >>
  /\ events = << >>
  /\ addedPageIds = << >>
  /\ data = << >>
  /\ hasAnyData = FALSE
  /\ errorString = NoError
  /\ isFinishedFlag = FALSE
  /\ finishedSignals = 0
  /\ updateSignals = 0
  /\ cancelled = FALSE
  /\ netReply = "null"
  /\ isCancelling = FALSE
  /\ matches = << >>
  /\ searchEvt = "none"
  /\ toLanguageRTL = FALSE
  /\ audioLinks = << >>
  /\ ignoredReply = FALSE
  /\ replyDeref = "none"

\* a dictionary into a left-to-right or a right-to-left language
PageInit ==
  /\ reqKind = "none"
  /\ askedWord = 0
  /\ issued = << >>
  /\ netReplies = << >>
  /\ replyState = << >>
  /\ events = << >>
  /\ addedPageIds = << >>
  /\ data = << >>
  /\ hasAnyData = FALSE
  /\ errorString = NoError
  /\ isFinishedFlag = FALSE
  /\ finishedSignals = 0
  /\ updateSignals = 0
  /\ cancelled = FALSE
  /\ netReply = "null"
  /\ isCancelling = FALSE
  /\ matches = << >>
  /\ searchEvt = "none"
  /\ toLanguageRTL \in BOOLEAN
  /\ audioLinks = << >>
  /\ ignoredReply = FALSE
  /\ replyDeref = "none"

\* ------------------------------------------- MediaWikiDictionary guards
\* a guard that also turns away a word of exactly 80 units
TermTooLongOffByOne(word) == word >= MaxWordSize

\* word.size() > 80
TermTooLong(word) == word > MaxWordSize

\* DataRequestInstant( succeeded ): finished at construction
DataRequestInstant(succeeded) ==
  /\ reqKind' = "dataInstant"
  /\ hasAnyData' = succeeded
  /\ finish
  /\ UNCHANGED << issued, netReplies, replyState, events, addedPageIds, data,
                  errorString, updateSignals, cancelled, searchVars >>
  /\ UNCHANGED pageVars

\* WordSearchRequestInstant(): finished at construction
WordSearchRequestInstant ==
  /\ reqKind' = "searchInstant"
  /\ finish
  /\ UNCHANGED << issued, articleVars, errorString, cancelled, searchVars >>
  /\ UNCHANGED pageVars

\* ---------------------------------------------- MediaWikiArticleRequest
\* an addQuery that puts the new reply at the front of the list
addQueryFront(q, str) ==
  [ issued |-> Append(q.issued, str),
    netReplies |-> << [reply |-> Len(q.issued) + 1, done |-> FALSE] >>
                     \o q.netReplies ]

\* addQuery: mgr.get( req ) and netReplies.push_back( (netReply, false) );
\* q is the record of the operations issued and of the reply list so far
addQuery(q, str) ==
  [ issued |-> Append(q.issued, str),
    netReplies |-> Append(q.netReplies,
                          [reply |-> Len(q.issued) + 1, done |-> FALSE]) ]

\* the loop over alts of the constructor, from alts[x] on
RECURSIVE AddAlts(_, _, _)
AddAlts(q, alts, x) ==
  IF x > Len(alts) THEN q ELSE AddAlts(addQuery(q, alts[x]), alts, x + 1)

\* the constructor: addQuery( mgr, str ), then one addQuery per alternate
MediaWikiArticleRequest(str, alts) ==
  LET q == AddAlts(addQuery([issued |-> << >>, netReplies |-> << >>], str), alts, 1)
  IN /\ reqKind' = "article"
     /\ issued' = q.issued
     /\ netReplies' = q.netReplies
     /\ replyState' = [h \in 1 .. Len(q.issued) |-> Running]
     /\ UNCHANGED << events, addedPageIds, data, hasAnyData, errorString,
                     isFinishedFlag, finishedSignals, updateSignals,
                     cancelled, searchVars >>
     /\ UNCHANGED pageVars

getArticle(word, alts) ==
  /\ reqKind = "none"
  /\ askedWord' = word
  /\ IF TermTooLong(word)
     THEN DataRequestInstant(FALSE)
     ELSE MediaWikiArticleRequest(word, alts)

\* the network finishes the operation h (with a response, an error or at its
\* transfer timeout) and the manager's finished( reply ) is queued for the
\* request; what the reply holds is drawn where the request reads it
NetworkReplyFinished(h) ==
  /\ reqKind = "article"
  /\ h \in DOMAIN replyState
  /\ replyState[h] = Running
  /\ replyState' = [replyState EXCEPT ![h] = Unread]
  /\ events' = Append(events, h)
  /\ UNCHANGED << reqKind, askedWord, issued, netReplies, addedPageIds, data, hasAnyData,
                  errorString, isFinishedFlag, finishedSignals, updateSignals,
                  cancelled, searchVars >>
  /\ UNCHANGED pageVars

\* a reply of another request finishes on the shared manager
ForeignReplyFinished ==
  /\ reqKind = "article"
  /\ Cardinality({ i \in 1 .. Len(events) : events[i] = ForeignReply }) < MaxForeign
  /\ events' = Append(events, ForeignReply)
  /\ UNCHANGED << reqKind, askedWord, issued, netReplies, replyState, addedPageIds, data,
                  hasAnyData, errorString, isFinishedFlag, finishedSignals,
                  updateSignals, cancelled, searchVars >>
  /\ UNCHANGED pageVars

\* a cancel() that forgets to finish the request
cancelWithoutFinish ==
  /\ reqKind = "article"
  /\ cancelled' = TRUE
  /\ UNCHANGED << reqKind, askedWord, issued, articleVars, errorString,
                  isFinishedFlag, finishedSignals, searchVars >>
  /\ UNCHANGED pageVars

\* cancel(): finish()
cancel ==
  /\ reqKind = "article"
  /\ cancelled' = TRUE
  /\ finish
  /\ UNCHANGED << reqKind, askedWord, issued, articleVars, errorString, searchVars >>
  /\ UNCHANGED pageVars

\* a search that takes the front entry whatever reply has finished
LocateFront(replies, r) == IF replies = << >> THEN 0 ELSE 1

\* the search of netReplies for the reply r: the position of its first entry,
\* 0 when it has none (found stays false)
Locate(replies, r) ==
  LET idx == { i \in 1 .. Len(replies) : replies[i].reply = r }
  IN IF idx = {} THEN 0 ELSE CHOOSE i \in idx : \A j \in idx : i <= j

\* a marking that also moves the finished reply to the front of the list
MarkFinishedToFront(replies, r) ==
  LET k == Locate(replies, r)
  IN << [replies[k] EXCEPT !.done = TRUE] >>
       \o SubSeq(replies, 1, k - 1) \o SubSeq(replies, k + 1, Len(replies))

\* the loop that marks the reply r as finished
MarkFinished(replies, r) ==
  [replies EXCEPT ![Locate(replies, r)].done = TRUE]

\* parseNode.toElement().attribute( "revid" ) != "0"
RevidFound(revid) == revid # "0"

\* ----------------------------------------------- MediaWikiSectionsParser
DivClose == "</div>"

TocOpen == "<div id='toc' class='toc' role='navigation' aria-labelledby='mw-toc-heading'>"

TocTitle == "<div class='toctitle'><h2 id='mw-toc-heading'>Contents</h2></div>"

UlOpen == "\n<ul>\n"

UlClose == "</ul>\n"

LiOpen == "<li>"

LiClose == "</li>\n"

\* the link of the k-th s element: its linkAnchor, number and line attributes
SectionAnchor(k) ==
  "<a href='#s" \o ToString(k) \o "'>" \o ToString(k) \o " " \o "line" \o "</a>"

\* QString::toInt( &ok )
toInt(levelString) ==
  IF levelString = "0" THEN [ok |-> TRUE, value |-> 0]
  ELSE IF \E n \in DOMAIN Numerals : Numerals[n] = levelString
  THEN [ok |-> TRUE, value |-> CHOOSE n \in DOMAIN Numerals : Numerals[n] = levelString]
  ELSE IF \E n \in DOMAIN Numerals : "-" \o Numerals[n] = levelString
  THEN [ok |-> TRUE,
        value |-> 0 - (CHOOSE n \in DOMAIN Numerals : "-" \o Numerals[n] = levelString)]
  ELSE [ok |-> FALSE, value |-> 0]

\* the while loop of closeListTags
RECURSIVE CloseDeeperLevels(_, _)
CloseDeeperLevels(p, currentLevel) ==
  IF currentLevel < p.previousLevel
  THEN CloseDeeperLevels([p EXCEPT !.tableOfContents = @ \o << UlClose, LiClose >>,
                                   !.previousLevel = @ - 1],
                         currentLevel)
  ELSE p

\* a closeListTags that closes the list item only
closeListTagsShallow(p, currentLevel) ==
  [p EXCEPT !.tableOfContents = Append(@, LiClose), !.previousLevel = currentLevel]

\* a closeListTags that closes one level more than it was asked to
closeListTagsTooDeep(p, currentLevel) ==
  CloseDeeperLevels([p EXCEPT !.asserted = @ /\ currentLevel <= p.previousLevel,
                              !.tableOfContents = Append(@, LiClose)],
                    currentLevel - 1)

\* closeListTags( currentLevel ) of the parser p; asserted tells whether
\* every Q_ASSERT evaluated so far held (a failed one aborts a debug build
\* and is skipped by a release build, which goes on)
closeListTags(p, currentLevel) ==
  CloseDeeperLevels([p EXCEPT !.asserted = @ /\ currentLevel <= p.previousLevel,
                              !.tableOfContents = Append(@, LiClose)],
                    currentLevel)

\* an addListLevel without the check for a level increase by more than one
addListLevelUnchecked(p, levelString) ==
  LET conv == toInt(levelString)
      level == conv.value
  IN IF ~ conv.ok THEN [ok |-> FALSE, p |-> p]
     ELSE IF level <= 0 THEN [ok |-> FALSE, p |-> p]
     ELSE LET q == IF level >= p.previousLevel + 1
                   THEN [p EXCEPT !.tableOfContents = Append(@, UlOpen),
                                  !.previousLevel = level]
                   ELSE closeListTags(p, level)
          IN [ok |-> TRUE, p |-> [q EXCEPT !.tableOfContents = Append(@, LiOpen)]]

\* addListLevel( levelString ) of the parser p: whether the level was added,
\* and the parser afterwards
addListLevel(p, levelString) ==
  LET conv == toInt(levelString)
      level == conv.value
  IN IF ~ conv.ok THEN [ok |-> FALSE, p |-> p]
     ELSE IF level <= 0 THEN [ok |-> FALSE, p |-> p]
     ELSE IF level > p.previousLevel + 1 THEN [ok |-> FALSE, p |-> p]
     ELSE LET q == IF level = p.previousLevel + 1
                   THEN [p EXCEPT !.tableOfContents = Append(@, UlOpen),
                                  !.previousLevel = level]
                   ELSE closeListTags(p, level)
          IN [ok |-> TRUE,
              p |-> [q EXCEPT !.asserted = @ /\ level = q.previousLevel,
                              !.tableOfContents = Append(@, LiOpen)]]

\* the do-while loop of generateTableOfContents from the k-th s element on
RECURSIVE AddSections(_, _, _)
AddSections(p, levels, k) ==
  LET a == addListLevel(p, levels[k]) IN
    IF ~ a.ok
    THEN [p EXCEPT !.tableOfContents = << >>, !.aborted = TRUE]
    ELSE LET q == [a.p EXCEPT !.tableOfContents = Append(@, SectionAnchor(k))] IN
         IF k < Len(levels) THEN AddSections(q, levels, k + 1) ELSE q

\* MediaWikiSectionsParser(): previousLevel( 0 )
MediaWikiSectionsParser ==
  [tableOfContents |-> << >>, previousLevel |-> 0, aborted |-> FALSE,
   asserted |-> TRUE]

\* the parser after generateTableOfContents( sectionsElement ); levels are
\* the toclevel attributes of the s children
ParseSections(levels) ==
  IF levels = << >> THEN MediaWikiSectionsParser
  ELSE LET p == AddSections([MediaWikiSectionsParser
                               EXCEPT !.tableOfContents = << TocOpen, TocTitle >>],
                            levels, 1)
       IN IF p.aborted THEN p
          ELSE [closeListTags(p, 1)
                  EXCEPT !.tableOfContents = @ \o << UlClose, DivClose >>]

\* generateTableOfContents( sectionsElement ) of a new parser: the parser's
\* tableOfContents afterwards
generateTableOfContents(levels) == ParseSections(levels).tableOfContents

\* the position of the first t in the text s, 0 when there is none
IndexOf(s, t) ==
  LET at == { i \in 1 .. Len(s) : s[i] = t }
  IN IF at = {} THEN 0 ELSE CHOOSE i \in at : \A j \in at : i <= j

\* generateTableOfContentsIfEmpty( parseNode, articleString ): the article
\* string afterwards
generateTableOfContentsIfEmpty(sections, articleString) ==
  LET emptyTocPos == IndexOf(articleString, EmptyTocIndicator) IN
    IF emptyTocPos = 0 THEN articleString
    ELSE IF ~ sections.present THEN articleString
    ELSE SubSeq(articleString, 1, emptyTocPos - 1)
           \o generateTableOfContents(sections.levels)
           \o SubSeq(articleString, emptyTocPos + 1, Len(articleString))

\* -------------------------------------------------------- article string
\* An article string is a sequence of tokens; a character that a regular
\* expression of requestFinished tells apart (quote, slash, colon, hash,
\* underscore, space, >) is a token of its own.
Quote == "\""

Space == " "

\* the \1 of a replacement string
BackRef == "\\1"

\* wikiUrl.scheme()
Scheme == << "https" >>

\* a base url that is only a path
WikiUrlRootRelative == << "/" >>

\* wikiUrl.toString(): the url of the dictionary with the path "/"
WikiUrl == Scheme \o << ":", "/", "/", "en.wikipedia.org", "/" >>

\* url, the address of the wiki
Url == Scheme \o << ":", "/", "/", "en.wikipedia.org", "/", "w" >>

\* dictPtr->getId()
DictId == "mwiki"

\* <a href="
LinkOpen == << "<a", Space, "href=", Quote >>

\* "><img src="qrcx://localhost/icons/playsound.png" border="0"
\* align="absmiddle" alt="Play"/></a>
PlayImg ==
  << Quote, ">", "<img", Space, "src=", Quote, "qrcx", ":", "/", "/", "localhost",
     "/", "icons", "/", "playsound.png", Quote, Space, "border=", Quote, "0",
     Quote, Space, "align=", Quote, "absmiddle", Quote, Space, "alt=", Quote,
     "Play", Quote, "/", ">", "</a>" >>

\* the tokens that hold a quote, a slash, a colon, a > and a word only
QuoteTokens == { Quote, EmptyTocIndicator }

SlashTokens == { "/", "</audio>", "</a>", "</script>", EmptyTocIndicator }

ColonTokens == { ":", EmptyTocIndicator }

GtTokens == { ">", "</audio>", "</a>", "<script>", "</script>", EmptyTocIndicator }

WordTokens == { "w", "x", "y", "wiki", "wikipedia", "https", "File", "file", "_", "0" }

\* the pattern pat stands at the position i of s
StartsWith(s, i, pat) ==
  /\ i + Len(pat) - 1 <= Len(s)
  /\ SubSeq(s, i, i + Len(pat) - 1) = pat

\* s.indexOf( pat ) >= 0
Contains(s, pat) == \E i \in 1 .. Len(s) : StartsWith(s, i, pat)

\* the length of the longest run of tokens outside stop from the position i
RECURSIVE RunNot(_, _, _)
RunNot(s, i, stop) ==
  IF i > Len(s) \/ s[i] \in stop THEN 0 ELSE 1 + RunNot(s, i + 1, stop)

\* the length of the longest run of tokens of allowed from the position i
RECURSIVE RunOf(_, _, _)
RunOf(s, i, allowed) ==
  IF i > Len(s) \/ s[i] \notin allowed THEN 0 ELSE 1 + RunOf(s, i + 1, allowed)

\* the position of the first token t at or after the position i, 0 when none
FirstAt(s, i, t) ==
  LET at == { k \in i .. Len(s) : s[k] = t }
  IN IF at = {} THEN 0 ELSE CHOOSE k \in at : \A j \in at : k <= j

\* s.replace( a, b ) for the character a
ReplaceToken(s, a, b) == [k \in 1 .. Len(s) |-> IF s[k] = a THEN b ELSE s[k]]

\* s.replace( before, after ) from the position i on
RECURSIVE ReplaceFrom(_, _, _, _)
ReplaceFrom(s, i, before, after) ==
  IF i > Len(s) THEN << >>
  ELSE IF StartsWith(s, i, before)
  THEN after \o ReplaceFrom(s, i + Len(before), before, after)
  ELSE << s[i] >> \o ReplaceFrom(s, i + 1, before, after)

\* QString::replace( before, after ): every occurrence, left to right, the
\* text put in is not searched again
Replace(s, before, after) == ReplaceFrom(s, 1, before, after)

\* no match of a pattern at a position
NoMatch == [len |-> 0, out |-> << >>]

\* <a\s+href=" at the position i of s: the position after it, 0 when it is
\* not there
AHrefEnd(s, i) ==
  LET sp == RunOf(s, i + 1, { Space }) IN
    IF s[i] = "<a" /\ sp >= 1 /\ StartsWith(s, i + 1 + sp, << "href=", Quote >>)
    THEN i + 1 + sp + 2
    ELSE 0

\* what the loop over regLinks puts in the place of a match: captured is the
\* match, link its captured( 1 )
RewriteLink(link, captured) ==
  IF Contains(link, << ":", "/", "/" >>)
  THEN captured
  ELSE LET link1 == ReplaceToken(link, ":", "%3A")
           n == FirstAt(link1, 2, "#")
           link2 == IF n = 0 THEN link1
                    ELSE SubSeq(link1, 1, n - 1) \o << "?gdanchor=" >>
                           \o ReplaceToken(SubSeq(link1, n + 1, Len(link1)), "_", "%5F")
       IN LinkOpen \o << "/" >> \o link2 \o << Quote >>

\* regLinks, <a\s+href="/([^"]+)", at the position i
LinksMatch(s, i) ==
  LET l == AHrefEnd(s, i) IN
    IF l = 0 \/ l > Len(s) \/ s[l] # "/" THEN NoMatch
    ELSE LET n == RunNot(s, l + 1, QuoteTokens) IN
         IF n = 0 \/ l + 1 + n > Len(s) \/ s[l + 1 + n] # Quote THEN NoMatch
         ELSE [len |-> l + 1 + n - i + 1,
               out |-> RewriteLink(SubSeq(s, l + 1, l + n), SubSeq(s, i, l + 1 + n))]

\* ([\w]*/)*index.php\? from the position g: the position of index.php?, 0
\* when the pattern is not there
RECURSIVE IndexPhpAt(_, _)
IndexPhpAt(s, g) ==
  IF g > Len(s) THEN 0
  ELSE IF s[g] = "index.php?" THEN g
  ELSE LET w == RunOf(s, g, WordTokens) IN
       IF g + w <= Len(s) /\ s[g + w] = "/" THEN IndexPhpAt(s, g + w + 1) ELSE 0

\* <a\shref="(/([\w]*/)*index.php\?) at the position i, replaced by
\* <a href="%1\1 with wikiUrl.toString()
IndexMatch(s, i) ==
  IF StartsWith(s, i, LinkOpen \o << "/" >>)
  THEN LET e == IndexPhpAt(s, i + 5) IN
       IF e = 0 THEN NoMatch
       ELSE [len |-> e - i + 1, out |-> LinkOpen \o WikiUrl \o SubSeq(s, i + 4, e)]
  ELSE NoMatch

\* reg2.match( tag ).captured( 1 ) for reg2 <source\s+src="([^"]+), << >>
\* when reg2 does not match
SourceRef(tag) ==
  LET refAt(k) == k + 1 + RunOf(tag, k + 1, { Space }) + 2
      at == { k \in 1 .. Len(tag) :
                /\ tag[k] = "<source"
                /\ RunOf(tag, k + 1, { Space }) >= 1
                /\ StartsWith(tag, refAt(k) - 2, << "src=", Quote >>)
                /\ RunNot(tag, refAt(k), QuoteTokens) >= 1 }
  IN IF at = {} THEN << >>
     ELSE LET k == CHOOSE k \in at : \A j \in at : k <= j
          IN SubSeq(tag, refAt(k), refAt(k) + RunNot(tag, refAt(k), QuoteTokens) - 1)

\* reg1, <audio\s.+?</audio>, at the position i, and what the loop over
\* reg1 puts in its place
AudioMatch(s, i) ==
  IF StartsWith(s, i, << "<audio", Space >>)
  THEN LET e == FirstAt(s, i + 3, "</audio>") IN
       IF e = 0 THEN NoMatch
       ELSE LET tag == SubSeq(s, i, e)
                ref == SourceRef(tag)
            IN [len |-> e - i + 1,
                out |-> IF ref = << >> THEN tag ELSE LinkOpen \o ref \o PlayImg]
  ELSE NoMatch

\* //upload\.wikimedia\.org/wikipedia/
UploadPrefix == << "/", "/", "upload.wikimedia.org", "/", "wikipedia", "/" >>

\* //upload\.wikimedia\.org/wikipedia/[^"'&]*\.og[ga](?:\.mp3|)
IsAudioUrl(v) ==
  /\ StartsWith(v, 1, UploadPrefix)
  /\ \/ Len(v) > Len(UploadPrefix) /\ v[Len(v)] \in { ".ogg", ".oga" }
     \/ /\ Len(v) > Len(UploadPrefix) + 1
        /\ v[Len(v)] = ".mp3" /\ v[Len(v) - 1] \in { ".ogg", ".oga" }

\* the url handed to addAudioLink: "\"" + wikiUrl.scheme() + ":\\1\""
AudioUrlTemplate == << Quote >> \o Scheme \o << ":", BackRef, Quote >>

\* addAudioLink( url, dictionaryId ): the markup it returns
addAudioLink(url, dictionaryId) == << "<script>" >> \o url \o << "</script>" >>

\* the replacement string of the audio url pass, built once for a page
AudioUrlAfter ==
  addAudioLink(AudioUrlTemplate, DictId) \o << "<a", Space, "href=" >> \o AudioUrlTemplate

\* <a\s+href="(//upload\.wikimedia\.org/wikipedia/[^"'&]*\.og[ga](?:\.mp3|))"
\* at the position i, replaced by the replacement string with \1 filled in
AudioUrlMatch(s, i) ==
  LET p == AHrefEnd(s, i) IN
    IF p = 0 THEN NoMatch
    ELSE LET n == RunNot(s, p, QuoteTokens \cup { "'", "&" })
             v == SubSeq(s, p, p + n - 1)
         IN IF p + n <= Len(s) /\ s[p + n] = Quote /\ IsAudioUrl(v)
            THEN [len |-> p + n - i + 1, out |-> Replace(AudioUrlAfter, << BackRef >>, v)]
            ELSE NoMatch

\* the string before at the position i, replaced by after
LiteralMatch(s, i, before, after) ==
  IF StartsWith(s, i, before) THEN [len |-> Len(before), out |-> after] ELSE NoMatch

\* rxLink, <a\s+href="[^/:">#]+, at the position i, with the underscores of
\* the match turned to spaces
UnderscoreMatch(s, i) ==
  LET p == AHrefEnd(s, i) IN
    IF p = 0 THEN NoMatch
    ELSE LET n == RunNot(s, p, SlashTokens \cup ColonTokens \cup QuoteTokens
                                 \cup GtTokens \cup { "#" })
         IN IF n = 0 THEN NoMatch
            ELSE [len |-> p + n - i,
                  out |-> SubSeq(s, i, p - 1)
                            \o ReplaceToken(SubSeq(s, p, p + n - 1), "_", Space)]

\* [^:/"]*file%3A[^/"]+
IsFileLink(v) ==
  \E f \in 1 .. Len(v) - 2 :
    /\ v[f] \in { "File", "file" } /\ v[f + 1] = "%3A"
    /\ \A k \in 1 .. f - 1 : v[k] \notin ColonTokens \cup SlashTokens
    /\ \A k \in f + 2 .. Len(v) : v[k] \notin SlashTokens

\* <a\s+href="([^:/"]*file%3A[^/"]+") at the position i, replaced by
\* <a href="%1/index.php?title=\1 with url
FileMatch(s, i) ==
  LET p == AHrefEnd(s, i) IN
    IF p = 0 THEN NoMatch
    ELSE LET n == RunNot(s, p, QuoteTokens)
             v == SubSeq(s, p, p + n - 1)
         IN IF p + n <= Len(s) /\ s[p + n] = Quote /\ IsFileLink(v)
            THEN [len |-> p + n - i + 1,
                  out |-> LinkOpen \o Url \o << "/", "index.php?", "title=" >>
                            \o v \o << Quote >>]
            ELSE NoMatch

\* regSrcset,  srcset\s*=\s*"/[^"]+", at the position i, with every // of
\* the match replaced by wikiUrl.scheme() + "://"
SrcsetMatch(s, i) ==
  IF StartsWith(s, i, << Space, "srcset" >>)
  THEN LET a == i + 2 + RunOf(s, i + 2, { Space })
           q == a + 1 + RunOf(s, a + 1, { Space })
           n == RunNot(s, q + 2, QuoteTokens)
       IN IF /\ StartsWith(s, a, << "=" >>)
             /\ StartsWith(s, q, << Quote, "/" >>)
             /\ n >= 1
             /\ StartsWith(s, q + 2 + n, << Quote >>)
          THEN [len |-> q + 2 + n - i + 1,
                out |-> Replace(SubSeq(s, i, q + 2 + n), << "/", "/" >>,
                                Scheme \o << ":", "/", "/" >>)]
          ELSE NoMatch
  ELSE NoMatch

\* the replacements of requestFinished, in the order in which they are made
PassOrder ==
  << "regLinks", "regIndex", "reg1", "audioUrl", "src2", "src1", "wiki",
     "rxLink", "regFile", "href2", "url2", "regSrcset" >>

\* the match of a replacement at the position i of s: its length (0 when
\* there is none) and what is put in its place
MatchAt(pass, s, i) ==
  CASE pass = "regLinks" -> LinksMatch(s, i)
    [] pass = "regIndex" -> IndexMatch(s, i)
    [] pass = "reg1" -> AudioMatch(s, i)
    [] pass = "audioUrl" -> AudioUrlMatch(s, i)
    [] pass = "src2" -> LiteralMatch(s, i, << Space, "src=", Quote, "/", "/" >>,
                                     << Space, "src=", Quote >> \o Scheme \o << ":", "/", "/" >>)
    [] pass = "src1" -> LiteralMatch(s, i, << "src=", Quote, "/" >>,
                                     << "src=", Quote >> \o WikiUrl)
    [] pass = "wiki" -> LiteralMatch(s, i, LinkOpen \o << "/", "wiki", "/" >>, LinkOpen)
    [] pass = "rxLink" -> UnderscoreMatch(s, i)
    [] pass = "regFile" -> FileMatch(s, i)
    [] pass = "href2" -> LiteralMatch(s, i, << Space, "href=", Quote, "/", "/" >>,
                                      << Space, "href=", Quote >> \o Scheme \o << ":", "/", "/" >>)
    [] pass = "url2" -> LiteralMatch(s, i, << "url(", Quote, "/", "/" >>,
                                     << "url(", Quote >> \o Scheme \o << ":", "/", "/" >>)
    [] pass = "regSrcset" -> SrcsetMatch(s, i)

\* a replacement made from the position i on: the matches are taken left to
\* right and what is put in is not searched again
RECURSIVE RewriteFrom(_, _, _)
RewriteFrom(pass, s, i) ==
  IF i > Len(s) THEN << >>
  ELSE LET match == MatchAt(pass, s, i) IN
       IF match.len > 0
       THEN match.out \o RewriteFrom(pass, s, i + match.len)
       ELSE << s[i] >> \o RewriteFrom(pass, s, i + 1)

\* one replacement of requestFinished made on the article string s
ApplyPass(pass, s) == RewriteFrom(pass, s, 1)

\* the article string after the replacements PassOrder[k], PassOrder[k+1], ...
RECURSIVE ApplyPasses(_, _)
ApplyPasses(s, k) ==
  IF k > Len(PassOrder) THEN s ELSE ApplyPasses(ApplyPass(PassOrder[k], s), k + 1)

\* the article string of a text node before the table of contents is put in
RewriteArticle(articleString) == ApplyPasses(articleString, 1)

\* ---------------------------------------------------------- article body
\* the div that opens an article body
MwikiOpen(rtl) ==
  IF rtl THEN "<div class=\"mwiki\" dir=\"rtl\">" ELSE "<div class=\"mwiki\">"

\* an article body left without the div around it
WrapNothing(articleString, rtl) == articleString

\* articleBody.prepend( <div class="mwiki" ...> ); articleBody.append( </div> )
Wrap(articleString, rtl) == << MwikiOpen(rtl) >> \o articleString \o << DivClose >>

\* a setErrorString that keeps the first error it was given
setErrorStringOnce(st, str) ==
  IF st.errorString = NoError THEN [st EXCEPT !.errorString = str] ELSE st

\* Request::setErrorString( str ): the error string is replaced
setErrorString(st, str) == [st EXCEPT !.errorString = str]

\* the body of the drain loop for the front reply h, which holds resp; st is
\* the record of addedPageIds, data, hasAnyData, errorString, audioLinks and
\* the local flag updated
ProcessReply(st, h, resp) ==
  IF resp.kind = "neterr"
  THEN setErrorString(st, NetErrorString(h))
  ELSE IF resp.kind = "xmlerr"
  THEN setErrorString(st, XmlErrorString(h))
  ELSE IF resp.kind = "parse" /\ RevidFound(resp.revid)
  THEN LET ins == SmallSetInsert(st.addedPageIds, resp.pageid) IN
       IF ins.inserted
       THEN IF resp.text
            THEN [st EXCEPT !.addedPageIds = ins.elements,
                            !.data = Append(st.data,
                                            [query |-> h, pageid |-> resp.pageid,
                                             body |->
                                               Wrap(generateTableOfContentsIfEmpty(
                                                      resp.sections,
                                                      RewriteArticle(resp.body)),
                                                    toLanguageRTL)]),
                            !.audioLinks =
                               Append(st.audioLinks,
                                      [url |-> AudioUrlTemplate, dictionaryId |-> DictId]),
                            !.hasAnyData = TRUE,
                            !.updated = TRUE]
            ELSE [st EXCEPT !.addedPageIds = ins.elements]
       ELSE st
  ELSE st

\* a drain that takes every finished reply, not only the finished prefix
RECURSIVE DrainRepliesAny(_, _, _)
DrainRepliesAny(replies, st, rs) ==
  IF replies = << >>
  THEN [replies |-> << >>, st |-> st, drained |-> {}]
  ELSE LET h == Head(replies).reply IN
       IF Head(replies).done
       THEN LET r == DrainRepliesAny(Tail(replies), ProcessReply(st, h, rs[h]), rs)
            IN [r EXCEPT !.drained = {h} \cup r.drained]
       ELSE LET r == DrainRepliesAny(Tail(replies), st, rs)
            IN [r EXCEPT !.replies = << Head(replies) >> \o r.replies]

\* a drain that drops the rest of the queue at the first failed reply
RECURSIVE DrainRepliesAbort(_, _, _)
DrainRepliesAbort(replies, st, rs) ==
  IF replies # << >> /\ Head(replies).done
  THEN LET h == Head(replies).reply IN
       IF rs[h].kind \in {"neterr", "xmlerr"}
       THEN [replies |-> << >>, st |-> ProcessReply(st, h, rs[h]), drained |-> {h}]
       ELSE LET r == DrainRepliesAbort(Tail(replies), ProcessReply(st, h, rs[h]), rs)
            IN [r EXCEPT !.drained = {h} \cup r.drained]
  ELSE [replies |-> replies, st |-> st, drained |-> {}]

\* for( ; netReplies.size() && netReplies.front().second; netReplies.pop_front() )
\* rs gives what each finished reply of the queue holds
RECURSIVE DrainReplies(_, _, _)
DrainReplies(replies, st, rs) ==
  IF replies # << >> /\ Head(replies).done
  THEN LET h == Head(replies).reply
           r == DrainReplies(Tail(replies), ProcessReply(st, h, rs[h]), rs)
       IN [r EXCEPT !.drained = {h} \cup r.drained]
  ELSE [replies |-> replies, st |-> st, drained |-> {}]

\* a handler without the check for a finished request
WasCancelledNever == FALSE

\* if ( isFinished() ) return;
WasCancelled == isFinished

\* a finish taken while one reply is still queued
AllDrainedEarly(replies) == Len(replies) <= 1

\* if ( netReplies.empty() ) finish();
AllDrained(replies) == replies = << >>

\* an update signalled after every drain
UpdateDueOnDrain(d) == d.drained # {}

\* else if ( updated ) update();
UpdateDue(d) == d.st.updated

\* the replies of the queue that are marked as finished
DoneReplies(replies) == { replies[i].reply : i \in { k \in 1 .. Len(replies) : replies[k].done } }

\* the slot requestFinished( r ) for the event at the head of the queue; the
\* replies it reads hold responses of R
requestFinished(R) ==
  /\ reqKind = "article"
  /\ events # << >>
  /\ events' = Tail(events)
  /\ LET r == Head(events) IN
     IF WasCancelled
     THEN UNCHANGED << netReplies, replyState, addedPageIds, data, hasAnyData,
                       errorString, isFinishedFlag, finishedSignals,
                       updateSignals, audioLinks, ignoredReply >>
     ELSE IF Locate(netReplies, r) = 0
     THEN /\ ignoredReply' = TRUE
          /\ UNCHANGED << netReplies, replyState, addedPageIds, data, hasAnyData,
                          errorString, isFinishedFlag, finishedSignals,
                          updateSignals, audioLinks >>
     ELSE LET marked == MarkFinished(netReplies, r) IN
          \E rs \in [DoneReplies(marked) -> R] :
            \E d \in { DrainReplies(marked,
                                     [addedPageIds |-> addedPageIds, data |-> data,
                                      hasAnyData |-> hasAnyData,
                                      errorString |-> errorString,
                                      audioLinks |-> audioLinks, updated |-> FALSE],
                                     rs) } :
               /\ netReplies' = d.replies
               /\ replyState' = [h \in DOMAIN replyState |->
                                   IF h \in d.drained THEN rs[h] ELSE replyState[h]]
               /\ addedPageIds' = d.st.addedPageIds
               /\ data' = d.st.data
               /\ hasAnyData' = d.st.hasAnyData
               /\ errorString' = d.st.errorString
               /\ audioLinks' = d.st.audioLinks
               /\ UNCHANGED ignoredReply
               /\ IF AllDrained(d.replies)
                  THEN finish /\ UNCHANGED updateSignals
                  ELSE /\ updateSignals' = IF UpdateDue(d) THEN updateSignals + 1
                                           ELSE updateSignals
                       /\ UNCHANGED << isFinishedFlag, finishedSignals >>
  /\ UNCHANGED << reqKind, askedWord, issued, cancelled, searchVars, toLanguageRTL >>

\* ------------------------------------------- MediaWikiWordSearchRequest
\* the constructor: netReply = mgr.get( ... ), finished() -> downloadFinished()
MediaWikiWordSearchRequest(str) ==
  /\ reqKind' = "search"
  /\ issued' = << str >>
  /\ netReply' = "held"
  /\ isCancelling' = FALSE
  /\ searchEvt' = "pending"
  /\ UNCHANGED << articleVars, errorString, isFinishedFlag, finishedSignals,
                  cancelled, matches, replyDeref >>
  /\ UNCHANGED pageVars

prefixMatch(word) ==
  /\ reqKind = "none"
  /\ askedWord' = word
  /\ IF TermTooLong(word)
     THEN WordSearchRequestInstant
     ELSE MediaWikiWordSearchRequest(word)

\* a cancel() that releases the reply and does nothing else
searchCancelResetOnly ==
  /\ reqKind = "search"
  /\ cancelled' = TRUE
  /\ netReply' = "null"
  /\ UNCHANGED << reqKind, askedWord, issued, articleVars, errorString, matches,
                  searchEvt, replyDeref, isCancelling, isFinishedFlag,
                  finishedSignals >>
  /\ UNCHANGED pageVars

\* MediaWikiWordSearchRequest::cancel()
searchCancel ==
  /\ reqKind = "search"
  /\ cancelled' = TRUE
  /\ isCancelling' = TRUE
  /\ netReply' = "null"
  /\ finish
  /\ UNCHANGED << reqKind, askedWord, issued, articleVars, errorString, matches,
                  searchEvt, replyDeref >>
  /\ UNCHANGED pageVars

\* MediaWikiWordSearchRequest::downloadFinished(), the reply holding resp;
\* netReply->error() on the released reply is undefined, and any of the
\* outcomes of reading a reply may follow it
downloadFinished(resp) ==
  /\ reqKind = "search"
  /\ searchEvt = "pending"
  /\ searchEvt' = "emitted"
  /\ IF isCancelling \/ isFinished
     THEN UNCHANGED << matches, errorString, isFinishedFlag, finishedSignals,
                       replyDeref >>
     ELSE /\ replyDeref' = netReply
          /\ errorString' = IF resp.kind = "neterr" THEN NetErrorString(1)
                            ELSE IF resp.kind = "xmlerr" THEN XmlErrorString(1)
                            ELSE errorString
          /\ matches' = IF resp.kind = "pages" THEN matches \o resp.titles
                        ELSE matches
          /\ finish
  /\ UNCHANGED << reqKind, askedWord, issued, articleVars, cancelled, netReply, isCancelling >>
  /\ UNCHANGED pageVars

\* ------------------------------------------------------ specifications
\* the steps of the program with terms drawn from T and replies from R
NextOver(T, R) ==
  \/ \E word \in T, alts \in AltSeqs(T) : getArticle(word, alts)
  \/ \E word \in T : prefixMatch(word)
  \/ \E h \in 1 .. (MaxAlts + 1) : NetworkReplyFinished(h)
  \/ ForeignReplyFinished
  \/ requestFinished(R)
  \/ cancel
  \/ searchCancel
  \/ \E resp \in SearchResponses : downloadFinished(resp)

\* the request machinery: terms below the guard, every kind of reply
Next == NextOver(ShortTermSizes, Responses)

Spec == Init /\ [][Next]_vars

\* the guard: terms of every size, one failing and one succeeding reply
GuardNext == NextOver(AllTermSizes, SmallResponses)

GuardSpec == Init /\ [][GuardNext]_vars

\* every operation finishes and every queued event is delivered
FairNext == NextOver(ShortTermSizes, SmallResponses)

FairSpec ==
  /\ Init /\ [][FairNext]_vars
  /\ WF_vars(requestFinished(SmallResponses))
  /\ \A h \in 1 .. (MaxAlts + 1) : WF_vars(NetworkReplyFinished(h))

\* a lookup without alternates, whose one reply holds a response of R
PageNextOver(R) ==
  \/ \E word \in ShortTermSizes : getArticle(word, << >>)
  \/ NetworkReplyFinished(1)
  \/ requestFinished(R)

\* the table of contents: pages with every sections element
TocNext == PageNextOver(TocResponses)

TocSpec == Init /\ [][TocNext]_vars

\* the replacements: pages with every text
TextNext == PageNextOver(TextResponses)

TextSpec == Init /\ [][TextNext]_vars

\* the request machinery of a dictionary into either kind of language
WrapSpec == PageInit /\ [][Next]_vars

\* ---------------------------------------------------------- properties
\* the queries of the article request, in submission order
Queries == 1 .. Len(issued)

\* every query of the article request has been drained from the queue
Drained == reqKind = "article" /\ netReplies = << >>

\* the fragments of the buffer that came from page p
FragmentsOf(p) == { i \in 1 .. Len(data) : data[i].pageid = p }

\* the query h has a fragment in the buffer
HasFragment(h) == \E i \in 1 .. Len(data) : data[i].query = h

\* C1: the fragments of the article buffer are in query submission order,
\* whatever the order in which the replies finished
C1_SubmissionOrder ==
  \A i, j \in 1 .. Len(data) : i < j => data[i].query < data[j].query

\* the third query finished before the second one and is held back in the
\* queue, while the fragment of the first is in the buffer
C1_Witness ==
  /\ reqKind = "article"
  /\ Len(netReplies) = 2
  /\ ~ netReplies[1].done /\ netReplies[2].done
  /\ Len(data) = 1 /\ data[1].query = 1

\* a response without transport or parse error and with a real revision id
Usable(resp) == resp.kind = "parse" /\ resp.revid \notin {"0", ""}

\* C2: when two or more queries returned a usable response for the same
\* page, the drained request holds exactly one fragment of that page
\* (checked where one of those responses has a text child)
C2_ExactlyOneFragment ==
  Drained =>
    \A p \in PageIds :
      LET same == { h \in Queries : Usable(replyState[h]) /\ replyState[h].pageid = p }
      IN Cardinality(same) >= 2 /\ (\E h \in same : replyState[h].text)
           => Cardinality(FragmentsOf(p)) = 1

\* C3: once cancel() was called no step changes the buffer, the has-any-data
\* flag, the error string or the page id set
C3_NoMutationAfterCancel ==
  [][cancelled => UNCHANGED << data, hasAnyData, errorString, addedPageIds >>]_vars

\* cancel() came with three operations outstanding and the three finished()
\* events were all delivered after it
C3_Witness ==
  /\ reqKind = "article" /\ cancelled
  /\ Len(netReplies) = 3
  /\ \A h \in Queries : replyState[h] = Unread
  /\ \A i \in 1 .. 3 : ~ netReplies[i].done
  /\ events = << >>
  /\ data = << >>

\* the reply of h is a page with a real revision and a text child, and no
\* query submitted before h got a parse node of the same page
GoodPage(h) ==
  /\ Usable(replyState[h]) /\ replyState[h].text
  /\ \A g \in Queries :
       g < h /\ replyState[g].kind = "parse" => replyState[g].pageid # replyState[h].pageid

\* the reply of the query h was read by the drain loop
WasRead(h) == replyState[h] \notin {Running, Unread}

\* C4: a failed query neither finishes the request while queries are queued
\* or unread, nor keeps the good pages of its siblings out of the buffer
C4_FailureKeepsSiblings ==
  /\ reqKind = "article" /\ isFinishedFlag /\ ~ cancelled =>
       netReplies = << >> /\ \A h \in Queries : WasRead(h)
  /\ Drained => \A h \in Queries : GoodPage(h) => HasFragment(h)

\* a transport error and a parse error ahead of a good page, all drained
C4_Witness ==
  /\ Drained /\ Len(issued) = 3
  /\ replyState[1].kind = "neterr"
  /\ replyState[2].kind = "xmlerr"
  /\ GoodPage(3) /\ HasFragment(3)

\* the request returned by the lookup is one of the instant requests
Instant == reqKind \in {"dataInstant", "searchInstant"}

\* C5: a lookup of a word longer than 80 units issues no network operation
\* and returns a finished request without result, data flag or error; a word
\* of exactly 80 units is looked up
C5_LengthGuard ==
  /\ reqKind # "none" /\ askedWord > MaxWordSize =>
       /\ Instant
       /\ issued = << >>
       /\ isFinishedFlag
       /\ data = << >> /\ matches = << >>
       /\ ~ hasAnyData
       /\ errorString = NoError
  /\ reqKind # "none" /\ askedWord = MaxWordSize =>
       /\ reqKind \in {"article", "search"}
       /\ issued # << >> /\ issued[1] = MaxWordSize

\* getArticle was called with a word of more than 80 units
C5_Witness ==
  /\ reqKind = "dataInstant" /\ askedWord > MaxWordSize
  /\ issued = << >> /\ isFinishedFlag

\* C6: every network operation of an article lookup, for the word and for
\* every alternate, carries a term of at most 80 units
C6_NoLongTermIssued ==
  reqKind = "article" => \A i \in 1 .. Len(issued) : issued[i] <= MaxWordSize

\* the article request was finished by its own completion handling
NaturallyFinished == isFinishedFlag /\ netReplies = << >>

\* C7: without cancel(), finished() is emitted in the very step in which the
\* queue becomes empty, never with a reply still queued; and when every reply
\* finishes and every event is delivered the request gets finished
C7_FinishWhenQueueEmpties ==
  /\ [][ reqKind = "article" /\ ~ cancelled' =>
           ( finishedSignals' # finishedSignals
               <=> netReplies # << >> /\ netReplies' = << >> ) ]_vars
  /\ (reqKind = "article") ~> (cancelled \/ NaturallyFinished)

\* three queries, no cancel, finished with the queue empty
C7_Witness ==
  /\ reqKind = "article" /\ ~ cancelled
  /\ Len(issued) = 3
  /\ NaturallyFinished /\ finishedSignals = 1

\* C8: finished() is emitted exactly once, whatever the sequence of
\* finished( reply ) events and cancel() calls
C8_FinishedOnce ==
  reqKind = "article" =>
    /\ finishedSignals <= 1
    /\ cancelled \/ netReplies = << >> => finishedSignals = 1
    /\ finishedSignals = 1 <=> isFinishedFlag

\* cancel() with two operations outstanding, whose events came afterwards
C8_Witness ==
  /\ reqKind = "article" /\ cancelled
  /\ Len(netReplies) = 2 /\ Len(issued) = 2
  /\ \A h \in Queries : replyState[h] = Unread
  /\ events = << >>
  /\ finishedSignals = 1

\* a reply that is a transport error, a parse error or a page not found
Failed(resp) ==
  \/ resp.kind \in {"neterr", "xmlerr", "noparse"}
  \/ resp.kind = "parse" /\ resp.revid \in {"0", ""}

\* the error a failed reply of query h stands for
ErrorOfReply(h) ==
  IF replyState[h].kind = "neterr" THEN NetErrorString(h)
  ELSE IF replyState[h].kind = "xmlerr" THEN XmlErrorString(h)
  ELSE << "notfound", h >>

\* C9: when every query failed, the drained request has an empty buffer, no
\* data flag, and the error string of the last failing query
C9_AllFailed ==
  Drained /\ (\A h \in Queries : Failed(replyState[h])) =>
    /\ data = << >>
    /\ ~ hasAnyData
    /\ errorString = ErrorOfReply(Len(issued))

\* C10: a parse node with revid "0" or without a revid attribute is a page
\* not found: no fragment of that query is in the buffer
C10_NoRevidNoFragment ==
  reqKind = "article" =>
    \A h \in Queries :
      replyState[h].kind = "parse" /\ replyState[h].revid \in {"0", ""}
        => ~ HasFragment(h)

\* the content of DataRequest::data: the appended article bodies, in order
RECURSIVE Buffer(_)
Buffer(d) == IF d = << >> THEN << >> ELSE Head(d).body \o Buffer(Tail(d))

\* the number of opening mwiki divs in the text s
MwikiOpens(s) ==
  Cardinality({ i \in 1 .. Len(s) : s[i] \in { MwikiOpen(TRUE), MwikiOpen(FALSE) } })

\* C11: the buffer of a finished request holds one opening mwiki div and one
\* matching close around all the fragments, however many pages were emitted
C11_OneOuterContainer ==
  reqKind = "article" /\ NaturallyFinished =>
    LET b == Buffer(data) IN
      /\ Len(b) >= 2
      /\ b[1] = MwikiOpen(toLanguageRTL)
      /\ b[Len(b)] = DivClose
      /\ MwikiOpens(b) = 1

\* C11 (amended): every fragment of the buffer has its own mwiki div, opened
\* at its start in the direction of the dictionary's language and closed at
\* its end, so the buffer holds as many mwiki divs as it holds fragments
C11_ContainerPerFragment ==
  /\ \A i \in 1 .. Len(data) :
       LET b == data[i].body IN
         /\ Len(b) >= 2
         /\ b[1] = MwikiOpen(toLanguageRTL)
         /\ b[Len(b)] = DivClose
         /\ MwikiOpens(b) = 1
  /\ MwikiOpens(Buffer(data)) = Len(data)

\* two pages were emitted by a right-to-left dictionary
C11_Witness ==
  /\ reqKind = "article" /\ NaturallyFinished
  /\ toLanguageRTL
  /\ Len(data) = 2
  /\ MwikiOpens(Buffer(data)) = 2

\* the number of tokens t in the text s
Count(s, t) == Cardinality({ i \in 1 .. Len(s) : s[i] = t })

\* the tag that a closing tag closes
OpenerOf(t) == IF t = UlClose THEN UlOpen ELSE IF t = LiClose THEN LiOpen ELSE TocOpen

\* the tags left open by the text s read after the open tags of stack (the
\* innermost first); << "mismatch" >> when a tag closes what is not open
RECURSIVE Unclosed(_, _)
Unclosed(s, stack) ==
  IF s = << >> THEN stack
  ELSE IF Head(s) \in { UlOpen, LiOpen, TocOpen }
  THEN Unclosed(Tail(s), << Head(s) >> \o stack)
  ELSE IF Head(s) \in { UlClose, LiClose, DivClose }
  THEN IF stack # << >> /\ Head(stack) = OpenerOf(Head(s))
       THEN Unclosed(Tail(s), Tail(stack))
       ELSE << "mismatch" >>
  ELSE Unclosed(Tail(s), stack)

\* the number of tags t open in front of the position pos of the text s
DepthAt(s, pos, t) == Count(Unclosed(SubSeq(s, 1, pos - 1), << >>), t)

\* toclevel attributes that are levels, start at 1 and never rise by more
\* than one
ValidLevels(levels) ==
  /\ levels # << >>
  /\ \A k \in 1 .. Len(levels) : toInt(levels[k]).ok /\ toInt(levels[k]).value >= 1
  /\ toInt(levels[1]).value = 1
  /\ \A k \in 2 .. Len(levels) : toInt(levels[k]).value <= toInt(levels[k - 1]).value + 1

\* the reply read for the i-th fragment of the buffer
ReplyOf(i) == replyState[data[i].query]

\* the i-th fragment came from a page with the indicator of the empty table
\* of contents and with a sections element
HadEmptyToc(i) == ReplyOf(i).body = TocBody /\ ReplyOf(i).sections.present

\* what the i-th fragment holds in the place of the indicator
TocOf(i) == SubSeq(data[i].body, 3, Len(data[i].body) - 2)

\* C12: for a sections element whose levels start at 1, are all at least 1
\* and never rise by more than one, the generated table of contents is well
\* nested: as many lists closed as opened, one item opened and closed per
\* section, nothing closed before it is opened, and the link of every section
\* inside as many lists and items as its level
C12_WellNestedToc ==
  \A i \in 1 .. Len(data) :
    LET levels == ReplyOf(i).sections.levels
        toc == TocOf(i)
    IN HadEmptyToc(i) /\ ValidLevels(levels) =>
         /\ Count(toc, UlOpen) = Count(toc, UlClose)
         /\ Count(toc, UlOpen) >= 1
         /\ Count(toc, LiOpen) = Len(levels)
         /\ Count(toc, LiClose) = Len(levels)
         /\ Unclosed(toc, << >>) = << >>
         /\ \A k \in 1 .. Len(levels) :
              LET pos == IndexOf(toc, SectionAnchor(k)) IN
                /\ pos > 0
                /\ Count(toc, SectionAnchor(k)) = 1
                /\ DepthAt(toc, pos, UlOpen) = toInt(levels[k]).value
                /\ DepthAt(toc, pos, LiOpen) = toInt(levels[k]).value

\* the table of contents of the levels 1, 2, 2, 3, 1 is in the buffer
C12_Witness ==
  /\ Len(data) = 1
  /\ HadEmptyToc(1)
  /\ ReplyOf(1).sections.levels = << "1", "2", "2", "3", "1" >>
  /\ Count(TocOf(1), LiOpen) = 5

\* the k-th toclevel attribute is not an integer, is not positive, or is
\* more than one above the level of the section before it (above 1 for the
\* first section)
BadSection(levels, k) ==
  \/ ~ toInt(levels[k]).ok
  \/ toInt(levels[k]).value <= 0
  \/ toInt(levels[k]).value > (IF k = 1 THEN 0 ELSE toInt(levels[k - 1]).value) + 1

\* the first section of levels that is bad, 0 when none is
FirstBadSection(levels) ==
  LET bad == { k \in 1 .. Len(levels) : BadSection(levels, k) }
  IN IF bad = {} THEN 0 ELSE CHOOSE k \in bad : \A j \in bad : k <= j

\* C13: when a section of the sections element has a bad level, wherever it
\* stands, the indicator of the empty table of contents is taken out of the
\* page with nothing put in its place, no error string is set and the
\* fragment of the page is appended to the buffer
C13_BadLevelAbortsToc ==
  \A h \in Queries :
    LET resp == replyState[h] IN
      /\ WasRead(h) /\ resp.kind = "parse" /\ RevidFound(resp.revid) /\ resp.text
      /\ resp.body = TocBody /\ resp.sections.present
      /\ FirstBadSection(resp.sections.levels) > 0
      => /\ Len(data) = 1 /\ data[1].query = h
         /\ data[1].body = << MwikiOpen(toLanguageRTL), "x", "y", DivClose >>
         /\ hasAnyData
         /\ errorString = NoError

\* the third of three sections has a level two above the one before it
C13_Witness ==
  /\ Len(data) = 1
  /\ HadEmptyToc(1)
  /\ ReplyOf(1).sections.levels = << "1", "1", "3" >>
  /\ FirstBadSection(ReplyOf(1).sections.levels) = 3
  /\ TocOf(1) = << >>

\* the replacements of requestFinished
PassNames == { PassOrder[k] : k \in 1 .. Len(PassOrder) }

\* the replacement has a match in the text s
Matches(pass, s) == \E i \in 1 .. Len(s) : MatchAt(pass, s, i).len > 0

\* the text of a page that the request has read
PageTexts ==
  { replyState[h].body :
      h \in { g \in Queries : replyState[g].kind = "parse" /\ replyState[g].text } }

\* made on its own output the replacement changes nothing
Idempotent(pass, s) == \A out \in { ApplyPass(pass, s) } : ApplyPass(pass, out) = out

IdempotentPasses ==
  { "regIndex", "audioUrl", "src2", "src1", "href2", "url2", "rxLink" }

RECURSIVE MatchesFrom(_, _, _)
MatchesFrom(pass, s, i) ==
  IF i > Len(s) THEN << >>
  ELSE LET match == MatchAt(pass, s, i) IN
       IF match.len > 0
       THEN << [captured |-> SubSeq(s, i, i + match.len - 1), out |-> match.out] >>
              \o MatchesFrom(pass, s, i + match.len)
       ELSE MatchesFrom(pass, s, i + 1)

\* the urls of the audio references of the page text s: the sources of the
\* audio tags that the audio tag pass replaces, then the links to audio
\* files that the audio url pass replaces, each as a quoted url
AudioReferences(s) ==
  LET atTags == ApplyPass("regIndex", ApplyPass("regLinks", s))
      tags == MatchesFrom("reg1", atTags, 1)
      links == MatchesFrom("audioUrl", ApplyPass("reg1", atTags), 1)
      withSource == { k \in 1 .. Len(tags) : SourceRef(tags[k].captured) # << >> }
  IN [ tag |-> { << Quote >> \o SourceRef(tags[k].captured) \o << Quote >> :
                   k \in withSource },
       tags |-> Cardinality(withSource),
       link |-> { << Quote >> \o Scheme \o << ":" >>
                    \o SubSeq(links[k].captured, 5, Len(links[k].captured)) :
                    k \in 1 .. Len(links) },
       links |-> Len(links) ]

\* C19: while a page is rewritten addAudioLink is called once for every
\* audio reference matched (every audio tag with a source and every link to
\* an audio file), with the id of the dictionary and the url of that
\* reference, and it is not called for a page without audio reference
C19_OneCallPerAudioReference ==
  \A h \in Queries :
    replyState[h].kind = "parse" /\ replyState[h].text /\ HasFragment(h) =>
      \A refs \in { AudioReferences(replyState[h].body) } :
        /\ Len(audioLinks) = refs.tags + refs.links
        /\ \A k \in 1 .. Len(audioLinks) :
             /\ audioLinks[k].dictionaryId = DictId
             /\ audioLinks[k].url \in refs.tag \cup refs.link

\* a step of requestFinished: the event at the head of the queue is taken
HandlerStep == reqKind = "article" /\ events # << >> /\ events' = Tail(events)

\* the step took queries from the queue and left at least one queued
PartialDrain ==
  /\ HandlerStep
  /\ Len(netReplies') < Len(netReplies)
  /\ netReplies' # << >>

\* C15: a step of the handler that drains at least one query and leaves the
\* queue non-empty emits updated() and does not finish the request, whether
\* or not a drained query appended to the buffer
C15_UpdateOnEveryDrain ==
  [][ PartialDrain =>
        /\ updateSignals' = updateSignals + 1
        /\ UNCHANGED << isFinishedFlag, finishedSignals >> ]_vars

\* C15 (amended): a step of the handler that drains at least one query and
\* leaves the queue non-empty emits updated() exactly when a drained query
\* appended a fragment to the buffer, and it never finishes the request
C15_UpdateWhenAppended ==
  [][ PartialDrain =>
        /\ updateSignals' = IF Len(data') > Len(data) THEN updateSignals + 1
                            ELSE updateSignals
        /\ UNCHANGED << isFinishedFlag, finishedSignals >> ]_vars

\* of three queries the first failed and was drained without a signal, the
\* second was drained with its fragment and a signal, the third is queued
C15_Witness ==
  /\ reqKind = "article" /\ ~ isFinishedFlag
  /\ Len(issued) = 3 /\ Len(netReplies) = 1
  /\ replyState[1].kind = "neterr"
  /\ Len(data) = 1 /\ data[1].query = 2
  /\ updateSignals = 1

\* the event at the head of the queue is for no entry of netReplies
NotOurReply == \A i \in 1 .. Len(netReplies) : netReplies[i].reply # Head(events)

\* C16: a finished( reply ) event for a reply that is not in netReplies
\* leaves the queue with its flags, the buffer, the has-any-data flag, the
\* error string and the page id set as they are, and neither updated() nor
\* finished() is emitted
C16_ForeignEventIgnored ==
  [][ HandlerStep /\ NotOurReply =>
        UNCHANGED << netReplies, data, hasAnyData, errorString, addedPageIds,
                     updateSignals, finishedSignals, isFinishedFlag >> ]_vars

\* the reply of another request was ignored by a request that is not
\* finished, with one fragment in the buffer and a query still queued
C16_Witness ==
  /\ reqKind = "article" /\ ignoredReply /\ ~ isFinishedFlag
  /\ netReplies # << >> /\ Len(data) = 1
  /\ ForeignReply \notin Range(events)

\* the queries that are in the queue
Queued(replies) == { replies[i].reply : i \in 1 .. Len(replies) }

\* the network has finished the operation of the query g
Complete(g) == replyState[g] # Running

\* C17: the queue is always a suffix of the submitted sequence, in that
\* order; a step removes a query only when the operations of that query and
\* of every query submitted before it have finished; and after every step
\* of the handler the queue is empty or its front entry is not marked
C17_DrainInSubmissionOrder ==
  /\ [](reqKind = "article" =>
          \E k \in 0 .. Len(issued) :
            /\ Len(netReplies) = Len(issued) - k
            /\ \A i \in 1 .. Len(netReplies) : netReplies[i].reply = k + i)
  /\ [][ reqKind = "article" =>
           \A h \in Queued(netReplies) \ Queued(netReplies') :
             \A g \in 1 .. h : Complete(g) /\ g \notin Queued(netReplies') ]_vars
  /\ [][ HandlerStep => netReplies' = << >> \/ ~ netReplies'[1].done ]_vars

\* the first of three queries was drained; the third one is marked and waits
\* behind the second, which the network has finished but whose event has
\* not been handled yet
C17_Witness ==
  /\ reqKind = "article" /\ Len(issued) = 3
  /\ netReplies = << [reply |-> 2, done |-> FALSE], [reply |-> 3, done |-> TRUE] >>
  /\ replyState[2] = Unread
  /\ events = << 2 >>

\* the operation handles that netReplies still holds
HeldReplies == Queued(netReplies)

\* C18: in the state right after cancel() on an article request the queue is
\* empty and the request holds no operation handle any more
C18_CancelDiscardsQueue ==
  [][ reqKind = "article" /\ ~ cancelled /\ cancelled' =>
        netReplies' = << >> /\ HeldReplies' = {} ]_vars

\* C20: the page id set is exactly the set of the page ids of the fragments
\* in the buffer, it only grows, and no page id is in it twice
C20_DedupSetIsEmittedPages ==
  /\ [](reqKind = "article" =>
          /\ Range(addedPageIds) = { data[i].pageid : i \in 1 .. Len(data) }
          /\ \A i, j \in 1 .. Len(addedPageIds) :
               addedPageIds[i] = addedPageIds[j] => i = j)
  /\ [][ /\ Len(addedPageIds') >= Len(addedPageIds)
         /\ SubSeq(addedPageIds', 1, Len(addedPageIds)) = addedPageIds ]_vars

\* the queries that the drain loop has taken from the queue
DrainedQueries == Queries \ Queued(netReplies)

\* the drained queries whose reply was a transport error or a parse error
FailedQueries == { h \in DrainedQueries : replyState[h].kind \in {"neterr", "xmlerr"} }

\* the error that the reply of the failed query h gives
ErrorOf(h) ==
  IF replyState[h].kind = "neterr" THEN NetErrorString(h) ELSE XmlErrorString(h)

\* the failed query that was submitted last
LastFailed == CHOOSE h \in FailedQueries : \A g \in FailedQueries : g <= h

\* C21: the error string of an article request is always the error of the
\* failed query that is latest in submission order among the drained ones,
\* and empty while no drained query failed; a reply that is marked but waits
\* behind an unfinished one has not set it, and a page drained after the
\* failure does not clear it
C21_LastFailedQueryError ==
  reqKind = "article" =>
    errorString = IF FailedQueries = {} THEN NoError ELSE ErrorOf(LastFailed)

\* a parse error, then a transport error, then a good page: the request is
\* finished with the fragment of the page and the error of the second query
C21_Witness ==
  /\ Drained /\ isFinishedFlag /\ Len(issued) = 3
  /\ replyState[1].kind = "xmlerr"
  /\ replyState[2].kind = "neterr"
  /\ GoodPage(3) /\ hasAnyData /\ Len(data) = 1
  /\ errorString = NetErrorString(2)

\* what a request holds when the replies that its queries got are handled
\* one after the other in submission order
InOrder ==
  DrainReplies([h \in Queries |-> [reply |-> h, done |-> TRUE]],
               [addedPageIds |-> << >>, data |-> << >>, hasAnyData |-> FALSE,
                errorString |-> NoError, audioLinks |-> << >>, updated |-> FALSE],
               replyState).st

\* the queries whose reply is a found parse node of the page p
QueriesOfPage(p) ==
  { h \in Queries : /\ replyState[h].kind = "parse"
                    /\ RevidFound(replyState[h].revid)
                    /\ replyState[h].pageid = p }

\* C22: the buffer, the has-any-data flag and the error string of a request
\* that finished by itself are those of handling the replies in submission
\* order, whatever the order in which the finished( reply ) events came, and
\* the fragment of a page that several queries got is that of the earliest
\* of these queries
C22_OrderIndependent ==
  Drained /\ isFinishedFlag =>
    \A inOrder \in { InOrder } :
      /\ data = inOrder.data
      /\ hasAnyData = inOrder.hasAnyData
      /\ errorString = inOrder.errorString
      /\ \A i \in 1 .. Len(data) :
           \A h \in QueriesOfPage(data[i].pageid) : data[i].query <= h

\* the events of the second and the third query came before the event of
\* the first one: the three were drained in one step, without updated(), and
\* of the two queries of the same page the first gave the fragment
C22_Witness ==
  /\ Drained /\ isFinishedFlag /\ Len(issued) = 3
  /\ updateSignals = 0
  /\ GoodPage(1) /\ Usable(replyState[2]) /\ replyState[2].text
  /\ replyState[2].pageid = replyState[1].pageid
  /\ GoodPage(3)
  /\ Len(data) = 2 /\ data[1].query = 1 /\ data[2].query = 3

\* C23: once cancel() was called on a prefix search request no step, the
\* late downloadFinished() included, changes the matches or the error
\* string; downloadFinished() never dereferences the reply that cancel()
\* released; and the request is finished from the cancel() on
C23_SearchCancelDiscardsReply ==
  /\ [][ reqKind = "search" /\ cancelled =>
           UNCHANGED << matches, errorString >> ]_vars
  /\ [](replyDeref # "null")
  /\ [](reqKind = "search" /\ cancelled =>
          isFinishedFlag /\ finishedSignals = 1 /\ netReply = "null")

\* the finished() signal of the reply was delivered after cancel(), and
\* downloadFinished() returned without reading the reply
C23_Witness ==
  /\ reqKind = "search" /\ cancelled
  /\ searchEvt = "emitted"
  /\ replyDeref = "none"
  /\ matches = << >> /\ errorString = NoError
  /\ isFinishedFlag

\* C24: for every sections element, well formed or not, every Q_ASSERT of
\* the parser holds: the tracked level is the level of the section that
\* addListLevel has just accepted, and closeListTags is never called with a
\* level above the tracked one, the closeListTags( 1 ) after the loop
\* included
C24_ParserAssertionsHold ==
  \A i \in 1 .. Len(data) :
    HadEmptyToc(i) =>
      ParseSections(ReplyOf(i).sections.levels).asserted

\* a table of contents whose last section is two levels below the list that
\* the closeListTags( 1 ) after the loop has to close
C24_Witness ==
  /\ Len(data) = 1
  /\ HadEmptyToc(1)
  /\ ReplyOf(1).sections.levels = << "1", "2", "3", "2", "3" >>
  /\ ParseSections(ReplyOf(1).sections.levels).asserted
  /\ Count(TocOf(1), UlClose) = 4

====
